---- MODULE Spec2Model ----
(***************************************************************************)
(* tapa-fast-cosim, src/tapa_fast_cosim/main.py.                           *)
(*                                                                         *)
(* Text is a sequence of symbols.  A symbol is one character ("0", "x",    *)
(* " ", ":" ...) or a fixed phrase of the RTL generator written as one     *)
(* symbol ("Control signals", "ap_start", "output" ...).  Python's         *)
(* `k in line`, str.replace, str.strip, str.startswith and the regular     *)
(* expressions are computed over these sequences.                          *)
(***************************************************************************)
EXTENDS Integers, Sequences, FiniteSets, TLC

VARIABLES
  pc,          \* position of the run
  ctrl_unit,   \* lines of <top>_control_s_axi.v
  top_rtl,     \* text of <top>.v
  config,      \* the preprocessed configuration
  reg_result,  \* outcome of parse_register_addr
  axi_result,  \* outcome of parse_m_axi_interfaces
  tb,          \* the testbench document, a sequence of blocks
  written,     \* files written so far under tb_output_dir
  ram_i        \* main's loop index over axi_list

vars == <<pc, ctrl_unit, top_rtl, config, reg_result, axi_result, tb, written, ram_i>>

---------------------------------------------------------------------------
(* Bounds of the model *)

MaxLines == 4
MaxStmts == 4
MaxMainStmts == 4

---------------------------------------------------------------------------
(* Python string primitives over symbol sequences *)

Whitespace == {" ", "\n"}

\* characters of \w, and the generator's phrases that consist of them
WordSyms == {"0", "1", "2", "3", "4", "6", "7", "8", "c", "x", "a", "b", "W", "D",
             "of", "bit", "ap_start", "ap_done", "output", "input",
             "parameter", "m_axi_", "_ARADDR", "_WDATA"}

SubSeqFrom(s, i) == SubSeq(s, i, Len(s))

\* s[i:].startswith(k), i 1-based
MatchAt(k, s, i) ==
  /\ i >= 1
  /\ i + Len(k) - 1 <= Len(s)
  /\ SubSeq(s, i, i + Len(k) - 1) = k

\* k in s
In(k, s) ==
  \/ k = <<>>
  \/ \E i \in 1..(Len(s) - Len(k) + 1) : s[i] = k[1] /\ SubSeq(s, i, i + Len(k) - 1) = k

startswith(s, k) == MatchAt(k, s, 1)

RECURSIVE lstrip(_)
lstrip(s) == IF s # <<>> /\ Head(s) \in Whitespace THEN lstrip(Tail(s)) ELSE s

RECURSIVE rstrip(_)
rstrip(s) ==
  IF s # <<>> /\ s[Len(s)] \in Whitespace THEN rstrip(SubSeq(s, 1, Len(s) - 1)) ELSE s

strip(s) == rstrip(lstrip(s))

\* s.replace(old, new): every non-overlapping occurrence, left to right
RECURSIVE replace(_, _, _)
replace(s, old, new) ==
  IF s = <<>> THEN <<>>
  ELSE IF MatchAt(old, s, 1) THEN new \o replace(SubSeqFrom(s, Len(old) + 1), old, new)
  ELSE <<Head(s)>> \o replace(Tail(s), old, new)

\* end of the longest run of \w symbols of s that starts at i (i - 1 if none)
RECURSIVE WordRunEnd(_, _)
WordRunEnd(s, i) ==
  IF i <= Len(s) /\ s[i] \in WordSyms THEN WordRunEnd(s, i + 1) ELSE i - 1

\* first position after a run of \s symbols of s that starts at i
RECURSIVE SkipSpace(_, _)
SkipSpace(s, i) ==
  IF i <= Len(s) /\ s[i] \in Whitespace THEN SkipSpace(s, i + 1) ELSE i

\* 1-based indices of the elements of seq that contain k, ascending
Indices(k, seq) == {i \in 1..Len(seq) : In(k, seq[i])}

Min(S) == CHOOSE m \in S : \A n \in S : m <= n

---------------------------------------------------------------------------
(* _check_s_axi_control_format *)

keyword_groups ==
  << << <<"0", "x", "0", "0">>, <<"Control signals">> >>,
     << <<"0", "x", "0", "4">>, <<"Global Interrupt Enable Register">> >>,
     << <<"0", "x", "0", "8">>, <<"IP Interrupt Enable Register">> >>,
     << <<"0", "x", "0", "c">>, <<"IP Interrupt Status Register">> >> >>

fixed_addresses ==
  << << <<"-", " ", "ap_start">>,     <<"bit", " ", "0">> >>,
     << <<"-", " ", "ap_done">>,      <<"bit", " ", "1">> >>,
     << <<"-", " ", "ap_idle">>,      <<"bit", " ", "2">> >>,
     << <<"-", " ", "ap_ready">>,     <<"bit", " ", "3">> >>,
     << <<"-", " ", "auto_restart">>, <<"bit", " ", "7">> >> >>

\* faulty variant: only a description without its address is rejected
KeywordGroupOk_DescriptionOnly(line, kw_group) ==
  In(kw_group[2], line) => In(kw_group[1], line)

\* line 27: any(k in line for k in kw_group) == all(k in line for k in kw_group)
KeywordGroupOk(line, kw_group) ==
  LET found == {j \in 1..Len(kw_group) : In(kw_group[j], line)}
  IN  (found # {}) = (found = 1..Len(kw_group))

\* lines 25-27
KeywordsOk(comments) ==
  \A i \in 1..Len(comments) :
    \A g \in 1..Len(keyword_groups) : KeywordGroupOk(comments[i], keyword_groups[g])

\* faulty variant: any(...) in place of all(...)
FixedAddressOk_Any(line) ==
  \E f \in 1..Len(fixed_addresses) :
    In(fixed_addresses[f][1], line) => In(fixed_addresses[f][2], line)

\* line 39: all(addr in line for reg, addr in fixed_addresses if reg in line)
FixedAddressOk(line) ==
  \A f \in 1..Len(fixed_addresses) :
    In(fixed_addresses[f][1], line) => In(fixed_addresses[f][2], line)

\* faulty variant: the slice ends one line early
ApSignalSlice_EndsEarly(beg, end) ==
  LET ap_signal_beg == Min(beg)
      ap_signal_end == Min(end)
  IN  ap_signal_beg..(ap_signal_end - 2)

\* lines 36-39: comments[ap_signal_beg : ap_signal_end], 1-based beg..end-1
\* beg, end: the indices of the lines that hold '0x00', '0x04'; [0] takes the first
ApSignalSlice(beg, end) ==
  LET ap_signal_beg == Min(beg)
      ap_signal_end == Min(end)
  IN  ap_signal_beg..(ap_signal_end - 1)

\* faulty variant: a missing 0x00 or 0x04 line skips the fixed-bit check
check_s_axi_control_format_NoLookup(s_axi_control_comments) ==
  LET beg == Indices(<<"0", "x", "0", "0">>, s_axi_control_comments)
      end == Indices(<<"0", "x", "0", "4">>, s_axi_control_comments)
  IN  IF ~KeywordsOk(s_axi_control_comments) THEN "AssertionError"
      ELSE IF beg = {} \/ end = {} THEN "ok"
      ELSE IF \E i \in ApSignalSlice(beg, end) : ~FixedAddressOk(s_axi_control_comments[i])
           THEN "AssertionError"
      ELSE "ok"

_check_s_axi_control_format(s_axi_control_comments) ==
  LET beg == Indices(<<"0", "x", "0", "0">>, s_axi_control_comments)
      end == Indices(<<"0", "x", "0", "4">>, s_axi_control_comments)
  IN  IF ~KeywordsOk(s_axi_control_comments) THEN "AssertionError"
      ELSE IF beg = {} \/ end = {} THEN "IndexError"
      ELSE IF \E i \in ApSignalSlice(beg, end) : ~FixedAddressOk(s_axi_control_comments[i])
           THEN "AssertionError"
      ELSE "ok"

---------------------------------------------------------------------------
(* parse_register_addr *)

None == [none |-> TRUE]

DataSignalOf == <<" ", ":", " ", "Data signal", " ", "of", " ">>

\* re.search(r'(0x\w+) : Data signal of (\w+)', line) tried at position i:
\* \w+ is greedy and is followed by a space, so it takes the whole word run
MatchDataSignalAt(line, i) ==
  LET e1 == WordRunEnd(line, i + 2)
      s2 == e1 + 1 + Len(DataSignalOf)
      e2 == WordRunEnd(line, s2)
  IN  IF /\ MatchAt(<<"0", "x">>, line, i)
         /\ e1 >= i + 2
         /\ MatchAt(DataSignalOf, line, e1 + 1)
         /\ e2 >= s2
      THEN [addr |-> SubSeq(line, i, e1), signal |-> SubSeq(line, s2, e2)]
      ELSE None

\* line 53: the leftmost match, or None
re_search_data_signal(line) ==
  LET hits == {i \in 1..Len(line) : MatchDataSignalAt(line, i) # None}
  IN  IF hits = {} THEN None ELSE MatchDataSignalAt(line, Min(hits))

\* line 47
Comments(lines) ==
  SelectSeq(lines, LAMBDA line : startswith(strip(line), <<"/", "/">>))

\* faulty variant: the address is put in front of the argument's list
AppendAddr_Prepend(map, signal, addr) ==
  LET a == replace(addr, <<"0", "x">>, <<"'", "h">>)
  IN  IF signal \in DOMAIN map THEN [map EXCEPT ![signal] = <<a>> \o @]
      ELSE map @@ (signal :> <<a>>)

\* line 56: arg_to_reg_addrs[signal].append(addr.replace('0x', '\'h'))
AppendAddr(map, signal, addr) ==
  LET a == replace(addr, <<"0", "x">>, <<"'", "h">>)
  IN  IF signal \in DOMAIN map THEN [map EXCEPT ![signal] = Append(@, a)]
      ELSE map @@ (signal :> <<a>>)

EmptyMap == [x \in {} |-> <<>>]

\* lines 50-58, from comment i on; a line that passes the test of line 52 and
\* that the pattern does not match makes match None: AttributeError
RECURSIVE ExtractAddrs(_, _, _)
ExtractAddrs(comments, i, map) ==
  IF i > Len(comments) THEN [status |-> "ok", map |-> map]
  ELSE LET line == comments[i] IN
       IF In(<<" ", "0", "x">>, line) /\ In(<<"Data signal">>, line)
       THEN LET match == re_search_data_signal(line) IN
            IF match = None THEN [status |-> "AttributeError", map |-> EmptyMap]
            ELSE ExtractAddrs(comments, i + 1, AppendAddr(map, match.signal, match.addr))
       ELSE ExtractAddrs(comments, i + 1, map)

parse_register_addr(lines) ==
  LET comments == Comments(lines)
      chk == _check_s_axi_control_format(comments)
  IN  IF chk # "ok" THEN [status |-> chk, map |-> EmptyMap]
      ELSE ExtractAddrs(comments, 1, EmptyMap)

---------------------------------------------------------------------------
(* Control RTL inputs *)

Cmt == <<"/", "/", " ">>

Addr10 == <<"0", "x", "1", "0">>
Addr14 == <<"0", "x", "1", "4">>
Addr1c == <<"0", "x", "1", "c">>
Addr040 == <<"0", "x", "0", "4", "0">>
Addr18 == <<"0", "x", "1", "8">>

LineCtrl == Cmt \o <<"0", "x", "0", "0", " ", ":", " ", "Control signals">>
LineGie == Cmt \o <<"0", "x", "0", "4", " ", ":", " ", "Global Interrupt Enable Register">>
LineApStart == Cmt \o <<" ", "bit", " ", "0", " ", "-", " ", "ap_start">>
LineApDoneBit0 == Cmt \o <<" ", "bit", " ", "0", " ", "-", " ", "ap_done">>

\* `// <addr> : Data signal of <arg>`, optionally indented
DataLine(indent, addr, arg) == indent \o Cmt \o addr \o DataSignalOf \o <<arg>>

\* the address directly after the comment marker, no space before 0x
LineNoSpace == <<"/", "/">> \o Addr18 \o DataSignalOf \o <<"b">>
\* an address and the words Data signal, no argument
LineNoArg == Cmt \o <<"0", "x", "2", "0", " ", ":", " ", "Data signal">>
\* code followed by a trailing comment: not a comment line
LineCode == <<"a", " ">> \o LineCtrl

CtrlLines ==
  { LineCtrl, LineGie, LineApStart, LineApDoneBit0,
    DataLine(<<>>, Addr10, "a"), DataLine(<<" ">>, Addr14, "a"),
    DataLine(<<>>, Addr1c, "b"), DataLine(<<>>, Addr040, "b"),
    LineNoSpace, LineNoArg, LineCode }

CtrlFiles == UNION {[1..n -> CtrlLines] : n \in 0..MaxLines}

---------------------------------------------------------------------------
(* Specification of parse_register_addr over the control RTL inputs *)

NoResult == [status |-> "none", map |-> EmptyMap]

InitCtrl ==
  /\ pc = "ctrl_start"
  /\ ctrl_unit \in CtrlFiles
  /\ top_rtl = <<>>
  /\ config = <<>>
  /\ reg_result = NoResult
  /\ axi_result = [status |-> "none", list |-> <<>>]
  /\ tb = <<>>
  /\ written = {}
  /\ ram_i = 0

ParseRegisterAddr ==
  /\ pc = "ctrl_start"
  /\ reg_result' = parse_register_addr(ctrl_unit)
  /\ pc' = IF reg_result'.status = "ok" THEN "ctrl_done" ELSE "ctrl_error"
  /\ UNCHANGED <<ctrl_unit, top_rtl, config, axi_result, tb, written, ram_i>>

NextCtrl == ParseRegisterAddr

SpecCtrl == InitCtrl /\ [][NextCtrl]_vars

---------------------------------------------------------------------------
(* parse_m_axi_interfaces *)

\* s[i] when i is a position of s, else a symbol that matches nothing
At(s, i) == IF i >= 1 /\ i <= Len(s) THEN s[i] ELSE "<eof>"

\* the rest of both patterns, from the colon at k on:
\*   :\s*0\s*\]\s+m_axi_(\w+)<suffix>\s*[;,]
\* (\w+) is greedy and gives back the suffix, which the non-word \s*[;,] must
\* follow: the name is the word run less its last symbol, the suffix
MatchTailAt(s, k, suffix) ==
  LET p1 == SkipSpace(s, k + 1)
      p2 == SkipSpace(s, p1 + 1)
      p3 == SkipSpace(s, p2 + 1)
      e  == WordRunEnd(s, p3 + 1)
      p4 == SkipSpace(s, e + 1)
  IN  IF /\ At(s, k) = ":"
         /\ At(s, p1) = "0"
         /\ At(s, p2) = "]"
         /\ p3 > p2 + 1
         /\ At(s, p3) = "m_axi_"
         /\ e >= p3 + 2
         /\ At(s, e) = suffix
         /\ At(s, p4) \in {";", ","}
      THEN [name |-> SubSeq(s, p3 + 1, e - 1), end |-> p4]
      ELSE None

\* output\s+\[(.*): ... tried at position i: (.*) is greedy and does not cross a
\* newline, so the colon is the last one of the line from which the rest matches
MatchDeclAt(s, i, suffix) ==
  LET j  == SkipSpace(s, i + 1)
      ks == {k \in (j + 1)..Len(s) :
               /\ \A n \in (j + 1)..(k - 1) : s[n] # "\n"
               /\ MatchTailAt(s, k, suffix) # None}
  IN  IF At(s, i) = "output" /\ j > i + 1 /\ At(s, j) = "[" /\ ks # {}
      THEN LET k == CHOOSE x \in ks : \A y \in ks : y <= x
               t == MatchTailAt(s, k, suffix)
           IN  [width |-> SubSeq(s, j + 1, k - 1), name |-> t.name, end |-> t.end]
      ELSE None

\* re.findall of the declaration pattern from position i on: the matches in
\* text order, each <<width, name>>, not overlapping
RECURSIVE FindDecls(_, _, _)
FindDecls(s, i, suffix) ==
  IF i > Len(s) THEN <<>>
  ELSE LET m == MatchDeclAt(s, i, suffix) IN
       IF m = None THEN FindDecls(s, i + 1, suffix)
       ELSE << <<m.width, m.name>> >> \o FindDecls(s, m.end + 1, suffix)

\* faulty variant: the address widths are taken from the WDATA declarations
match_addr_FromData(text) == FindDecls(text, 1, "_WDATA")

\* line 67
match_addr(text) == FindDecls(text, 1, "_ARADDR")
\* line 68
match_data(text) == FindDecls(text, 1, "_WDATA")

\* end of the longest run of \S symbols of s that starts at i (i - 1 if none)
RECURSIVE NonSpaceRunEnd(_, _)
NonSpaceRunEnd(s, i) ==
  IF i <= Len(s) /\ s[i] \notin Whitespace THEN NonSpaceRunEnd(s, i + 1) ELSE i - 1

\* parameter\s+(\S+)\s*=\s+(\S+)\s*; tried at position i; both (\S+) are greedy
\* and give back symbols until the rest matches
MatchParamAt(s, i) ==
  LET j  == SkipSpace(s, i + 1)
      r1 == NonSpaceRunEnd(s, j)
      \* the value when the name ends at m: <<first, last, position of ;>>
      Value(m) ==
        LET q  == IF m = r1 THEN SkipSpace(s, m + 1) ELSE m + 1
            q2 == SkipSpace(s, q + 1)
            r2 == NonSpaceRunEnd(s, q2)
            ns == {n \in q2..r2 :
                     At(s, IF n = r2 THEN SkipSpace(s, n + 1) ELSE n + 1) = ";"}
        IN  IF At(s, q) = "=" /\ q2 > q + 1 /\ ns # {}
            THEN LET n == CHOOSE x \in ns : \A y \in ns : y <= x
                 IN  <<q2, n, IF n = r2 THEN SkipSpace(s, n + 1) ELSE n + 1>>
            ELSE <<>>
      ms == {m \in j..r1 : Value(m) # <<>>}
  IN  IF At(s, i) = "parameter" /\ j > i + 1 /\ ms # {}
      THEN LET m == CHOOSE x \in ms : \A y \in ms : y <= x
               v == Value(m)
           IN  [name |-> SubSeq(s, j, m), val |-> SubSeq(s, v[1], v[2]), end |-> v[3]]
      ELSE None

\* line 71: re.findall, the matches in text order, each <<name, val>>
RECURSIVE FindParams(_, _)
FindParams(s, i) ==
  IF i > Len(s) THEN <<>>
  ELSE LET m == MatchParamAt(s, i) IN
       IF m = None THEN FindParams(s, i + 1)
       ELSE << <<m.name, m.val>> >> \o FindParams(s, m.end + 1)

\* a dict as the sequence of its items in insertion order: d[key] = val
DictSet(d, key, val) ==
  IF \E i \in 1..Len(d) : d[i][1] = key
  THEN [i \in 1..Len(d) |-> IF d[i][1] = key THEN <<key, val>> ELSE d[i]]
  ELSE Append(d, <<key, val>>)

\* line 72: {name: val for name, val in params}
RECURSIVE param_to_value(_)
param_to_value(params) ==
  IF params = <<>> THEN <<>>
  ELSE LET last == params[Len(params)]
       IN  DictSet(param_to_value(SubSeq(params, 1, Len(params) - 1)), last[1], last[2])

\* line 75: {m_axi: addr_width for addr_width, m_axi in match_addr}
RECURSIVE name_to_addr_width(_)
name_to_addr_width(matches) ==
  IF matches = <<>> THEN <<>>
  ELSE LET last == matches[Len(matches)]
       IN  DictSet(name_to_addr_width(SubSeq(matches, 1, Len(matches) - 1)), last[2], last[1])

HasKey(d, key) == \E i \in 1..Len(d) : d[i][1] = key
Lookup(d, key) == d[CHOOSE i \in 1..Len(d) : d[i][1] = key][2]

\* lines 80-82 for one width: every parameter in turn, in the dict's order
RECURSIVE Substitute(_, _)
Substitute(width, items) ==
  IF items = <<>> THEN width
  ELSE Substitute(replace(width, Head(items)[1], Head(items)[2]), Tail(items))

Digits == {"0", "1", "2", "3", "4", "5", "6", "7", "8", "9"}

DigitVal(d) ==
  CASE d = "0" -> 0 [] d = "1" -> 1 [] d = "2" -> 2 [] d = "3" -> 3 [] d = "4" -> 4
    [] d = "5" -> 5 [] d = "6" -> 6 [] d = "7" -> 7 [] d = "8" -> 8 [] d = "9" -> 9

RECURSIVE DecVal(_)
DecVal(ds) ==
  IF ds = <<>> THEN 0 ELSE 10 * DecVal(SubSeq(ds, 1, Len(ds) - 1)) + DigitVal(ds[Len(ds)])

\* line 84: eval(expr) of a text of decimal digits and of the letters W and D
\* (names that nothing defines): a decimal literal evaluates to its value (one
\* with a leading zero is a syntax error unless all its digits are zero), an
\* identifier raises NameError, any other text is a syntax error
eval(expr) ==
  IF expr # <<>> /\ \A i \in 1..Len(expr) : expr[i] \in Digits
  THEN IF Len(expr) > 1 /\ expr[1] = "0" /\ \E i \in 1..Len(expr) : expr[i] # "0"
       THEN [status |-> "SyntaxError", val |-> 0]
       ELSE [status |-> "ok", val |-> DecVal(expr)]
  ELSE IF expr # <<>> /\ expr[1] \in {"W", "D"}
          /\ \A i \in 1..Len(expr) : expr[i] \in Digits \cup {"W", "D"}
  THEN [status |-> "NameError", val |-> 0]
  ELSE [status |-> "SyntaxError", val |-> 0]

\* from .common import AXI: the interface record built at line 84
AXI(name, data_width, addr_width) ==
  [name |-> name, data_width |-> data_width, addr_width |-> addr_width]

\* lines 76-84, from data match i on
RECURSIVE AxiLoop(_, _, _, _, _)
AxiLoop(data, i, addr_of, params, axi_list) ==
  IF i > Len(data) THEN [status |-> "ok", list |-> axi_list]
  ELSE LET m_axi == data[i][2] IN
       IF ~HasKey(addr_of, m_axi) THEN [status |-> "KeyError", list |-> <<>>]
       ELSE LET data_width == eval(Substitute(data[i][1], params))
                addr_width == eval(Substitute(Lookup(addr_of, m_axi), params))
            IN  IF data_width.status # "ok"
                THEN [status |-> data_width.status, list |-> <<>>]
                ELSE IF addr_width.status # "ok"
                THEN [status |-> addr_width.status, list |-> <<>>]
                ELSE AxiLoop(data, i + 1, addr_of, params,
                             Append(axi_list, AXI(m_axi, data_width.val + 1, addr_width.val + 1)))

\* line 65: the whole text of the file
RECURSIVE Read(_)
Read(lines) == IF lines = <<>> THEN <<>> ELSE Head(lines) \o Read(Tail(lines))

parse_m_axi_interfaces(lines) ==
  LET text == Read(lines)
  IN  AxiLoop(match_data(text), 1, name_to_addr_width(match_addr(text)),
              param_to_value(FindParams(text, 1)), <<>>)

---------------------------------------------------------------------------
(* Top-level RTL inputs: one statement per line *)

\* `output [<hi>:0] m_axi_<name><suffix><term>`
Decl(dir, hi, name, suffix, term) ==
  <<dir, " ", "[">> \o hi \o <<":", "0", "]", " ", "m_axi_", name, suffix, term, "\n">>

\* `parameter <name> = <val>;`
Param(name, val) == <<"parameter", " ">> \o name \o <<" ", "=", " ">> \o val \o <<";", "\n">>

RtlLines ==
  { Decl("output", <<"3", "1">>, "a", "_ARADDR", ";"),
    Decl("output", <<"6", "3">>, "a", "_WDATA", ";"),
    Decl("output", <<"6", "3">>, "b", "_ARADDR", ","),
    Decl("output", <<"3", "1">>, "b", "_WDATA", ";"),
    Decl("output", <<"W">>, "b", "_WDATA", ";"),
    Decl("output", <<"W", "2">>, "b", "_WDATA", ";"),
    Decl("input", <<"3", "1">>, "a", "_WDATA", ";"),
    Param(<<"W">>, <<"3", "1">>),
    Param(<<"W", "2">>, <<"6", "3">>) }

RtlFiles == UNION {[1..n -> RtlLines] : n \in 0..MaxStmts}

NoAxiResult == [status |-> "none", list |-> <<>>]

InitAxi ==
  /\ pc = "axi_start"
  /\ top_rtl \in RtlFiles
  /\ ctrl_unit = <<>>
  /\ config = <<>>
  /\ reg_result = NoResult
  /\ axi_result = NoAxiResult
  /\ tb = <<>>
  /\ written = {}
  /\ ram_i = 0

ParseMAxiInterfaces ==
  /\ pc = "axi_start"
  /\ axi_result' = parse_m_axi_interfaces(top_rtl)
  /\ pc' = IF axi_result'.status = "ok" THEN "axi_done" ELSE "axi_error"
  /\ UNCHANGED <<ctrl_unit, top_rtl, config, reg_result, tb, written, ram_i>>

NextAxi == ParseMAxiInterfaces

SpecAxi == InitAxi /\ [][NextAxi]_vars

---------------------------------------------------------------------------
(* get_cosim_tb *)

\* from .templates import *: each template's text is one block of the document,
\* named after the function that makes it and holding what it was made from
get_begin == [block |-> "begin"]
get_axi_ram_inst(axi) == [block |-> "axi_ram_inst", axi |-> axi]
get_s_axi_control == [block |-> "s_axi_control"]
get_dut(top_name, axi_list) == [block |-> "dut", top_name |-> top_name, axi_list |-> axi_list]
get_test_signals(arg_to_reg_addrs, scalar_to_val, axi_list) ==
  [block |-> "test_signals", arg_to_reg_addrs |-> arg_to_reg_addrs,
   scalar_to_val |-> scalar_to_val, axi_list |-> axi_list]
get_end == [block |-> "end"]
get_axi_ram_module(axi, source_data_path, c_array_size) ==
  [block |-> "axi_ram_module", axi |-> axi,
   source_data_path |-> source_data_path, c_array_size |-> c_array_size]
\* from .vivado import get_vivado_tcl
get_vivado_tcl(cfg, tb_output_dir, save_waveform) == [block |-> "vivado_tcl", config |-> cfg]

\* faulty variant: the device under test is put before the control interface
TbBlocks_DutFirst(top_name, arg_to_reg_addrs, axi_list, scalar_to_val) ==
  <<get_begin>>
  \o [i \in 1..Len(axi_list) |-> get_axi_ram_inst(axi_list[i])]
  \o <<get_dut(top_name, axi_list)>>
  \o <<get_s_axi_control>>
  \o <<get_test_signals(arg_to_reg_addrs, scalar_to_val, axi_list)>>
  \o <<get_end>>

\* lines 94-108: tb += <block>, in this order
TbBlocks(top_name, arg_to_reg_addrs, axi_list, scalar_to_val) ==
  <<get_begin>>
  \o [i \in 1..Len(axi_list) |-> get_axi_ram_inst(axi_list[i])]
  \o <<get_s_axi_control>>
  \o <<get_dut(top_name, axi_list)>>
  \o <<get_test_signals(arg_to_reg_addrs, scalar_to_val, axi_list)>>
  \o <<get_end>>

\* lines 88-108; an error of parse_register_addr (line 92) leaves no document
get_cosim_tb(top_name, s_axi_control, axi_list, scalar_to_val) ==
  LET regs == parse_register_addr(s_axi_control)
  IN  IF regs.status # "ok" THEN [status |-> regs.status, regs |-> regs, tb |-> <<>>]
      ELSE [status |-> "ok", regs |-> regs,
            tb |-> TbBlocks(top_name, regs.map, axi_list, scalar_to_val)]

---------------------------------------------------------------------------
(* __main__: one generation run *)

MainRtlLines ==
  { Decl("output", <<"3", "1">>, "a", "_ARADDR", ";"),
    Decl("output", <<"6", "3">>, "a", "_WDATA", ";"),
    Decl("output", <<"6", "3">>, "b", "_ARADDR", ","),
    Decl("output", <<"3", "1">>, "b", "_WDATA", ";") }

MainRtlFiles == UNION {[1..n -> MainRtlLines] : n \in 0..MaxMainStmts}

CtrlValid ==
  <<LineCtrl, LineApStart, LineGie, DataLine(<<>>, Addr10, "a"), DataLine(<<>>, Addr1c, "b")>>
CtrlNoGie == <<LineCtrl, LineApStart, DataLine(<<>>, Addr10, "a")>>

MainCtrlFiles == {CtrlValid, CtrlNoGie}

\* preprocess_config(args.config_path): the maps may lack an interface of the RTL
Configs ==
  { [top_name |-> "top",
     scalar_to_val |-> [x \in {"n"} |-> "1"],
     axi_to_data_file |-> [n \in files |-> <<n, ".bin">>],
     axi_to_c_array_size |-> [n \in sizes |-> 8]] :
    files \in SUBSET {<<"a">>, <<"b">>}, sizes \in SUBSET {<<"a">>, <<"b">>} }

TbFile == <<"tb.v">>
RamFile(name) == <<"axi_ram_">> \o name \o <<".v">>
TclFile == <<"run/run_cosim.tcl">>

Init ==
  /\ pc = "main_start"
  /\ top_rtl \in MainRtlFiles
  /\ ctrl_unit \in MainCtrlFiles
  /\ config \in Configs
  /\ reg_result = NoResult
  /\ axi_result = NoAxiResult
  /\ tb = <<>>
  /\ written = {}
  /\ ram_i = 0

\* line 127
MainParseAxi ==
  /\ pc = "main_start"
  /\ axi_result' = parse_m_axi_interfaces(top_rtl)
  /\ pc' = IF axi_result'.status = "ok" THEN "get_tb" ELSE "aborted"
  /\ UNCHANGED <<ctrl_unit, top_rtl, config, reg_result, tb, written, ram_i>>

\* line 128
MainGetCosimTb ==
  /\ pc = "get_tb"
  /\ LET r == get_cosim_tb(config.top_name, ctrl_unit, axi_result.list, config.scalar_to_val)
     IN  /\ reg_result' = r.regs
         /\ tb' = r.tb
         /\ pc' = IF r.status = "ok" THEN "write_tb" ELSE "aborted"
  /\ UNCHANGED <<ctrl_unit, top_rtl, config, axi_result, written, ram_i>>

\* lines 131-132
MainWriteTb ==
  /\ pc = "write_tb"
  /\ written' = written \cup {<<TbFile, tb>>}
  /\ ram_i' = 1
  /\ pc' = "ram_loop"
  /\ UNCHANGED <<ctrl_unit, top_rtl, config, reg_result, axi_result, tb>>

\* lines 134-138, one iteration; a missing key at line 135 or 136 is a KeyError
MainWriteRam ==
  /\ pc = "ram_loop"
  /\ ram_i <= Len(axi_result.list)
  /\ LET axi == axi_result.list[ram_i] IN
     IF axi.name \in DOMAIN config.axi_to_data_file
        /\ axi.name \in DOMAIN config.axi_to_c_array_size
     THEN /\ written' = written \cup
               {<<RamFile(axi.name),
                  get_axi_ram_module(axi, config.axi_to_data_file[axi.name],
                                     config.axi_to_c_array_size[axi.name])>>}
          /\ ram_i' = ram_i + 1
          /\ pc' = pc
     ELSE /\ pc' = "aborted"
          /\ UNCHANGED <<written, ram_i>>
  /\ UNCHANGED <<ctrl_unit, top_rtl, config, reg_result, axi_result, tb>>

\* lines 141-149
MainWriteTcl ==
  /\ pc = "ram_loop"
  /\ ram_i > Len(axi_result.list)
  /\ written' = written \cup {<<TclFile, get_vivado_tcl(config, "tb_output_dir", FALSE)>>}
  /\ pc' = "launch"
  /\ UNCHANGED <<ctrl_unit, top_rtl, config, reg_result, axi_result, tb, ram_i>>

\* lines 152-154: the simulator runs outside the program's state
MainLaunchSimulation ==
  /\ pc = "launch"
  /\ pc' = "done"
  /\ UNCHANGED <<ctrl_unit, top_rtl, config, reg_result, axi_result, tb, written, ram_i>>

Next ==
  \/ MainParseAxi
  \/ MainGetCosimTb
  \/ MainWriteTb
  \/ MainWriteRam
  \/ MainWriteTcl
  \/ MainLaunchSimulation

Spec == Init /\ [][Next]_vars

---------------------------------------------------------------------------
(* Properties of parse_register_addr, checked under SpecCtrl *)

\* a line whose trimmed content begins with the line-comment marker
IsComment(line) ==
  \E k \in 1..(Len(line) - 1) :
    /\ line[k] = "/" /\ line[k + 1] = "/"
    /\ \A j \in 1..(k - 1) : line[j] \in Whitespace

Retained == SelectSeq(ctrl_unit, IsComment)

Tok00 == <<"0", "x", "0", "0">>
Tok04 == <<"0", "x", "0", "4">>

\* the control-register range of the retained comments: from the first line that
\* holds 0x00 up to, not including, the first line that holds 0x04
HasRange == Indices(Tok00, Retained) # {} /\ Indices(Tok04, Retained) # {}
Range == Min(Indices(Tok00, Retained))..(Min(Indices(Tok04, Retained)) - 1)

ControlBits ==
  { <<"ap_start", "0">>, <<"ap_done", "1">>, <<"ap_idle", "2">>,
    <<"ap_ready", "3">>, <<"auto_restart", "7">> }

Names(line, cb) == In(<<"-", " ", cb[1]>>, line)
Carries(line, cb) == In(<<"bit", " ", cb[2]>>, line)

RegisterDescriptions ==
  { <<Tok00, <<"Control signals">> >>,
    <<Tok04, <<"Global Interrupt Enable Register">> >>,
    << <<"0", "x", "0", "8">>, <<"IP Interrupt Enable Register">> >>,
    << <<"0", "x", "0", "c">>, <<"IP Interrupt Status Register">> >> }

\* every retained comment line holds a fixed register's address token exactly
\* when it holds the register's description
PairingHolds ==
  \A i \in 1..Len(Retained) : \A rd \in RegisterDescriptions :
    In(rd[1], Retained[i]) <=> In(rd[2], Retained[i])

Parsed == pc \in {"ctrl_done", "ctrl_error"}
Returned == pc = "ctrl_done"
Failed == pc = "ctrl_error" /\ reg_result.status # "ok" /\ reg_result.map = EmptyMap

\* C3 as stated: a line of the control-register range (the 0x00 line up to the
\* 0x04 line) that carries no fixed-bit annotation makes the extraction fail.
C3_AnyUnannotatedLineFails ==
  (Parsed /\ HasRange /\
     \E i \in Range : \A cb \in ControlBits : ~Carries(Retained[i], cb))
  => Failed

\* C3 amended: a line of the control-register range that names a control signal
\* ('- ap_start' ...) and does not carry that signal's bit ('bit 0' ...) makes the
\* extraction fail with the assertion error and yield no RegisterMap.
C3_UnannotatedSignalFails ==
  (Parsed /\ HasRange /\
     \E i \in Range : \E cb \in ControlBits :
       Names(Retained[i], cb) /\ ~Carries(Retained[i], cb))
  => (Failed /\ reg_result.status = "AssertionError")

C3_Witness ==
  /\ ctrl_unit = <<LineCtrl, LineApStart, LineApDoneBit0, LineGie>>
  /\ Failed /\ reg_result.status = "AssertionError"

\* C7: with no retained comment line holding 0x00, or none holding 0x04, the
\* extraction fails and yields no RegisterMap, whatever Data signal lines the
\* file has; it is the index lookup that fails when the keyword pairing holds.
C7_MissingHeaderFails ==
  (Parsed /\ ~HasRange)
  => /\ Failed
     /\ reg_result.status \in {"IndexError", "AssertionError"}
     /\ PairingHolds => reg_result.status = "IndexError"

C7_Witness ==
  /\ ctrl_unit = <<LineCode, LineGie, DataLine(<<>>, Addr10, "a")>>
  /\ Failed /\ reg_result.status = "IndexError"

\* C9: when a RegisterMap is returned, every retained comment line of the
\* control-register range that names a control signal carries that signal's bit;
\* a block with such a line lacking the bit yields no map.
C9_ControlBitsHold ==
  /\ Returned =>
       /\ HasRange
       /\ \A i \in Range : \A cb \in ControlBits :
            Names(Retained[i], cb) => Carries(Retained[i], cb)
  /\ (Parsed /\ HasRange /\
        \E i \in Range : \E cb \in ControlBits :
          Names(Retained[i], cb) /\ ~Carries(Retained[i], cb))
     => ~Returned

C9_Witness ==
  /\ ctrl_unit = <<LineCtrl, LineApStart, LineGie, LineApDoneBit0>>
  /\ Returned /\ reg_result.status = "ok"

\* C10: when a RegisterMap is returned, every retained comment line holds the
\* address token of each fixed register exactly when it holds the register's
\* description; a comment line with one and not the other makes the extraction fail.
C10_KeywordPairing ==
  LET paired == PairingHolds
  IN  /\ Returned => paired
      /\ (Parsed /\ ~paired) => (Failed /\ reg_result.status = "AssertionError")

C10_Witness ==
  /\ ctrl_unit = <<LineCtrl, LineGie, DataLine(<<>>, Addr040, "b")>>
  /\ Failed /\ reg_result.status = "AssertionError"

Addrs == {Addr10, Addr14, Addr1c, Addr040, Addr18}
Indents == {<<>>, <<" ">>}
ArgNames == {"a", "b"}

\* line is `// <addr> : Data signal of X`
IsDataLineOf(line, addr, X) == \E ind \in Indents : line = DataLine(ind, addr, X)

\* 0x1c -> 'h1c
HardwareLiteral(addr) == <<"'", "h">> \o SubSeqFrom(addr, 3)

\* the addresses of the Data signal lines of X, in file order, as literals
RECURSIVE ExpectedAddrs(_, _)
ExpectedAddrs(lines, X) ==
  IF lines = <<>> THEN <<>>
  ELSE (IF \E addr \in Addrs : IsDataLineOf(Head(lines), addr, X)
        THEN <<HardwareLiteral(CHOOSE addr \in Addrs : IsDataLineOf(Head(lines), addr, X))>>
        ELSE <<>>)
       \o ExpectedAddrs(Tail(lines), X)

---------------------------------------------------------------------------
(* Properties of parse_m_axi_interfaces, checked under SpecAxi *)

IfNames == {"a", "b"}
Bounds == {<<"3", "1">>, <<"6", "3">>, <<"W">>, <<"W", "2">>}
ParamNames == {<<"W">>, <<"W", "2">>}
ParamValues == {<<"3", "1">>, <<"6", "3">>}

\* line is `output [<hi>:0] m_axi_<name><suffix>` with either terminator
IsDecl(line, hi, name, suffix) ==
  \E term \in {";", ","} : line = Decl("output", hi, name, suffix, term)

IsDeclOf(line, suffix) == \E hi \in Bounds, n \in IfNames : IsDecl(line, hi, n, suffix)
DeclBound(line, suffix) == CHOOSE hi \in Bounds : \E n \in IfNames : IsDecl(line, hi, n, suffix)
DeclName(line, suffix) == CHOOSE n \in IfNames : \E hi \in Bounds : IsDecl(line, hi, n, suffix)

DataDecls == SelectSeq(top_rtl, LAMBDA line : IsDeclOf(line, "_WDATA"))
AddrDecls == SelectSeq(top_rtl, LAMBDA line : IsDeclOf(line, "_ARADDR"))

Declared(decls, suffix, n) == \E i \in 1..Len(decls) : DeclName(decls[i], suffix) = n

\* the bound of the last ARADDR declaration of n
AddrBoundOf(n) ==
  LET i == CHOOSE x \in 1..Len(AddrDecls) :
             /\ DeclName(AddrDecls[x], "_ARADDR") = n
             /\ \A y \in (x + 1)..Len(AddrDecls) : DeclName(AddrDecls[y], "_ARADDR") # n
  IN  DeclBound(AddrDecls[i], "_ARADDR")

IsLiteral(hi) == \A i \in 1..Len(hi) : hi[i] \in Digits

ParamDeclared(p) == \E i \in 1..Len(top_rtl) : \E v \in ParamValues : top_rtl[i] = Param(p, v)

\* the value of the last `parameter p = v;` line
ParamValue(p) ==
  LET i == CHOOSE x \in 1..Len(top_rtl) :
             /\ \E v \in ParamValues : top_rtl[x] = Param(p, v)
             /\ \A y \in (x + 1)..Len(top_rtl) : \A v \in ParamValues : top_rtl[y] # Param(p, v)
  IN  CHOOSE v \in ParamValues : top_rtl[i] = Param(p, v)

\* the number a bound stands for: a literal, or a declared parameter's value
BoundValue(hi) == IF IsLiteral(hi) THEN DecVal(hi) ELSE DecVal(ParamValue(hi))
BoundResolves(hi) == IsLiteral(hi) \/ ParamDeclared(hi)

AxiParsed == pc \in {"axi_done", "axi_error"}
AxiReturned == pc = "axi_done" /\ axi_result.status = "ok"

\* C2 as stated: an ARADDR with no WDATA of the same name, or a WDATA with no
\* ARADDR, makes the extraction raise an error instead of returning a list.
C2_UnpairedIsFatal ==
  (AxiParsed /\ \E n \in IfNames :
     Declared(AddrDecls, "_ARADDR", n) # Declared(DataDecls, "_WDATA", n))
  => ~AxiReturned

\* C4 as stated: in a file whose bounds are literals or declared parameter names
\* and whose data buses all have an address bus, every bound written with a
\* parameter name resolves to the parameter's declared value plus one,
\* whatever other parameters the file declares and in whatever order.
C4_ParameterWidth ==
  (/\ AxiParsed
   /\ \A i \in 1..Len(DataDecls) :
        /\ BoundResolves(DeclBound(DataDecls[i], "_WDATA"))
        /\ Declared(AddrDecls, "_ARADDR", DeclName(DataDecls[i], "_WDATA"))
        /\ BoundResolves(AddrBoundOf(DeclName(DataDecls[i], "_WDATA"))))
  => /\ AxiReturned
     /\ Len(axi_result.list) = Len(DataDecls)
     /\ \A i \in 1..Len(DataDecls) :
          LET hi == DeclBound(DataDecls[i], "_WDATA") IN
          ~IsLiteral(hi) => axi_result.list[i].data_width = BoundValue(hi) + 1

\* C6: in a file whose declared interfaces all have both an ARADDR and a WDATA
\* declaration, all with literal bounds, the result is one AxiInterface per WDATA
\* declaration, in the order of the WDATA declarations, with the data width the
\* WDATA bound plus one and the address width the ARADDR bound of the same
\* interface name plus one.
C6_OneInterfacePerDataDecl ==
  (/\ AxiParsed
   /\ \A n \in IfNames : Declared(AddrDecls, "_ARADDR", n) = Declared(DataDecls, "_WDATA", n)
   /\ \A i \in 1..Len(DataDecls) : IsLiteral(DeclBound(DataDecls[i], "_WDATA"))
   /\ \A i \in 1..Len(AddrDecls) : IsLiteral(DeclBound(AddrDecls[i], "_ARADDR")))
  => /\ AxiReturned
     /\ Len(axi_result.list) = Len(DataDecls)
     /\ \A i \in 1..Len(DataDecls) :
          LET n == DeclName(DataDecls[i], "_WDATA") IN
          axi_result.list[i] =
            [name |-> <<n>>,
             data_width |-> DecVal(DeclBound(DataDecls[i], "_WDATA")) + 1,
             addr_width |-> DecVal(AddrBoundOf(n)) + 1]

C6_Witness ==
  /\ top_rtl = << Decl("output", <<"3", "1">>, "a", "_ARADDR", ";"),
                  Decl("output", <<"3", "1">>, "b", "_WDATA", ";"),
                  Decl("output", <<"6", "3">>, "a", "_WDATA", ";"),
                  Decl("output", <<"6", "3">>, "b", "_ARADDR", ",") >>
  /\ AxiReturned
  /\ axi_result.list = << [name |-> <<"b">>, data_width |-> 32, addr_width |-> 64],
                          [name |-> <<"a">>, data_width |-> 64, addr_width |-> 32] >>

---------------------------------------------------------------------------
(* Properties of get_cosim_tb and of the run, checked under Spec *)

TbBuilt == pc \in {"write_tb", "ram_loop", "launch", "done"} \/ (pc = "aborted" /\ tb # <<>>)

\* C8: the document is the preamble, one memory-model instantiation block per
\* interface in the order of axi_list, the control-interface block, the
\* device-under-test block, the stimulus block built from the register map and
\* the literal values, and the closing block: n + 5 blocks for n interfaces.
C8_BlockOrder ==
  TbBuilt =>
    LET axi_list == axi_result.list
        n == Len(axi_list)
    IN  /\ Len(tb) = n + 5
        /\ tb[1].block = "begin"
        /\ \A i \in 1..n : tb[1 + i].block = "axi_ram_inst" /\ tb[1 + i].axi = axi_list[i]
        /\ tb[n + 2].block = "s_axi_control"
        /\ tb[n + 3].block = "dut" /\ tb[n + 3].axi_list = axi_list
        /\ tb[n + 4].block = "test_signals"
        /\ tb[n + 4].arg_to_reg_addrs = reg_result.map
        /\ tb[n + 4].scalar_to_val = config.scalar_to_val
        /\ tb[n + 5].block = "end"

C8_Witness ==
  /\ TbBuilt
  /\ Len(axi_result.list) = 2
  /\ axi_result.list[1].name = <<"b">> /\ axi_result.list[2].name = <<"a">>
  /\ Len(tb) = 7
  /\ tb[2].axi.name = <<"b">> /\ tb[3].axi.name = <<"a">>

Ended == pc \in {"aborted", "done"}
WrittenFiles == {w[1] : w \in written}
AllArtifacts ==
  {TbFile, TclFile} \cup {RamFile(axi_result.list[i].name) : i \in 1..Len(axi_result.list)}

\* C1 as stated: a run that has ended has written every artifact (tb.v, one
\* axi_ram_<name>.v per extracted interface, run/run_cosim.tcl) or none; a run
\* aborted by a failed configuration lookup has written none.
C1_AllOrNothing ==
  Ended => (WrittenFiles = {} \/ (axi_result.status = "ok" /\ WrittenFiles = AllArtifacts))

====
